---- MODULE Spec2Model ----
(***************************************************************************)
(* Balance-enrichment gateway (vnknowledge2014/fireblock_demo).             *)
(*                                                                         *)
(* Two revisions of the gateway carry the enrichment pipeline:             *)
(*   "index"   src/src/index.ts, lines 334-1038 (second revision)          *)
(*   "part000" src/unnamed/part_000 (the logging revision)                 *)
(* The first revision (src/src/index.ts, lines 1-333) has no price fetcher *)
(* and no enrichment and is not part of the pipeline modelled here; its    *)
(* error handling is part of the catch blocks modelled under SpecCatch.    *)
(*                                                                         *)
(* JavaScript values are records tagged with their type, so that values of *)
(* different types can be compared.  Strings are sequences of characters.  *)
(* Numbers are integers plus NaN and the two infinities; floating-point    *)
(* rounding is not modelled.                                               *)
(***************************************************************************)
EXTENDS Integers, Sequences, FiniteSets, TLC

VARIABLES
    inflight,   \* concurrent requests: what the handler of each holds
    setups,     \* how many times the setupApp effect has been run
    config,     \* the settings and the credential file the process runs with
    method,     \* the HTTP method of the request
    walletCalls, \* the calls made to the wallet platform's client
    rev,        \* which revision serves the request
    route,      \* the route the request matched
    pc,         \* position of the request's handler
    urlAssetId, \* c.req.param('assetId') of the single-asset route
    upstream,   \* the wallet platform's answer, as it arrived
    wallet,     \* the same answer as the handler holds and updates it
    k,          \* account-list route: number of accounts fully processed
    scopeSyms,  \* symbols argument of the price fetch in flight
    calls,      \* the getPrices calls made so far: scope, arguments, how each settled
                \* and the table it returned
    net,        \* the HTTP requests issued to the market-data endpoint
    resp,       \* the response of the request
    arg,        \* input of the function under study (function specifications)
    ret         \* its result

vars == <<inflight, setups, config, method, walletCalls, rev, route, pc, urlAssetId, upstream, wallet, k, scopeSyms, calls, net, resp, arg, ret>>

-----------------------------------------------------------------------------
(* JavaScript values *)

Undefined == [t |-> "undefined", v |-> 0]
Null == [t |-> "null", v |-> 0]
NaN == [t |-> "NaN", v |-> 0]
PosInf == [t |-> "Infinity", v |-> 1]
NegInf == [t |-> "Infinity", v |-> -1]
Num(n) == [t |-> "number", v |-> n]

\* a string value, and the absent string (a missing field)
Str(s) == [t |-> "string", s |-> s]
NoStr == [t |-> "undefined", s |-> <<>>]
\* the error a property access on undefined raises
TypeError == [t |-> "TypeError", s |-> <<>>]

\* an array value, and the absent array
Arr(a) == [t |-> "array", a |-> a]
NoArr == [t |-> "undefined", a |-> <<>>]

Currencies == <<"USD", "AUD">>
CurrencySet == {"USD", "AUD"}

\* ToBoolean of a number-or-null value
Truthy(x) == /\ x.t \in {"number", "Infinity"}
             /\ x.v # 0

\* ToBoolean of a string-or-undefined value
TruthyStr(x) == x.t = "string" /\ x.s # <<>>

\* the global isNaN, on the values it is applied to
IsNaN(x) == x.t \in {"NaN", "undefined"}

IsFinite(x) == x.t = "number"

Sign(n) == IF n < 0 THEN -1 ELSE 1

\* IEEE multiplication on the modelled numbers
Mul(a, b) ==
    IF a.t = "NaN" \/ b.t = "NaN" THEN NaN
    ELSE IF a.t = "Infinity" \/ b.t = "Infinity"
         THEN IF a.v = 0 \/ b.v = 0 THEN NaN
              ELSE IF Sign(a.v) = Sign(b.v) THEN PosInf ELSE NegInf
         ELSE Num(a.v * b.v)

\* IEEE addition on the modelled numbers
Add(a, b) ==
    IF a.t = "NaN" \/ b.t = "NaN" THEN NaN
    ELSE IF a.t = "Infinity" /\ b.t = "Infinity"
         THEN IF a.v = b.v THEN a ELSE NaN
         ELSE IF a.t = "Infinity" THEN a
         ELSE IF b.t = "Infinity" THEN b
         ELSE Num(a.v + b.v)

\* JSON.stringify of a number: non-finite numbers are written as null
JsonNum(x) == IF x.t \in {"NaN", "Infinity"} THEN Null ELSE x

-----------------------------------------------------------------------------
(* Strings *)

\* String.prototype.split with a one-character separator
RECURSIVE split(_, _)
split(s, sep) ==
    IF \A i \in 1..Len(s) : s[i] # sep
    THEN <<s>>
    ELSE LET i == CHOOSE i \in 1..Len(s) :
                      s[i] = sep /\ \A j \in 1..(i - 1) : s[j] # sep
         IN  <<SubSeq(s, 1, i - 1)>> \o split(SubSeq(s, i + 1, Len(s)), sep)

\* Array.prototype.join
RECURSIVE join(_, _)
join(a, sep) ==
    IF a = <<>> THEN <<>>
    ELSE IF Len(a) = 1 THEN a[1]
    ELSE a[1] \o <<sep>> \o join(Tail(a), sep)

DigitChars == {"0", "1", "2", "3", "4", "5", "6", "7", "8", "9"}

DigitVal(c) ==
    CASE c = "0" -> 0 [] c = "1" -> 1 [] c = "2" -> 2 [] c = "3" -> 3
      [] c = "4" -> 4 [] c = "5" -> 5 [] c = "6" -> 6 [] c = "7" -> 7
      [] c = "8" -> 8 [] c = "9" -> 9

\* value of the longest prefix of digits of s, continuing from acc
RECURSIVE DigitsValue(_, _)
DigitsValue(s, acc) ==
    IF s = <<>> \/ Head(s) \notin DigitChars THEN acc
    ELSE DigitsValue(Tail(s), 10 * acc + DigitVal(Head(s)))

\* parseFloat on a string: an optional sign, then the word Infinity (one
\* element "Infinity" of the sequence) or a run of digits; anything after the
\* number is ignored; no number at the start gives NaN.
parseFloat(s) ==
    LET neg == s # <<>> /\ Head(s) = "-"
        r == IF neg THEN Tail(s) ELSE s
    IN  IF r = <<>> THEN NaN
        ELSE IF Head(r) = "Infinity" THEN (IF neg THEN NegInf ELSE PosInf)
        ELSE IF Head(r) \notin DigitChars THEN NaN
        ELSE Num((IF neg THEN -1 ELSE 1) * DigitsValue(r, 0))

-----------------------------------------------------------------------------
(* SymbolExtractor *)

\* asset.id?.split('_')[0] || ''   (every list handler)
SymbolNoGuard(id) ==
    IF id.t # "string" THEN TypeError ELSE Str(split(id.s, "_")[1])

extractSymbol(id) ==
    IF id.t # "string" THEN Str(<<>>) ELSE Str(split(id.s, "_")[1])

\* assetId.split('_')[0]   (single-asset handler; assetId is a path parameter
\* and always a string)
extractUrlSymbol(assetId) ==
    IF assetId.t # "string" THEN TypeError ELSE Str(split(assetId.s, "_")[1])

-----------------------------------------------------------------------------
(* Upstream records and price tables *)

\* asset.data of the upstream record: absent, or an object with its own
\* available field
NoData == [t |-> "undefined", available |-> NoStr]
Data(av) == [t |-> "object", available |-> av]

RawAsset(id, av, data) == [id |-> id, available |-> av, data |-> data]

\* one row of the price table; a currency the row lacks reads as undefined
Row(usd, aud) == [t |-> "object", USD |-> usd, AUD |-> aud]
NoRow == [t |-> "undefined", USD |-> Undefined, AUD |-> Undefined]
\* the literal { USD: null, AUD: null }
NullRow == Row(Null, Null)
\* the literal {} assigned to prices before the fetch
EmptyTable == <<>>

\* prices[symbol]
lookup(prices, symbol) ==
    IF symbol \in DOMAIN prices THEN prices[symbol] ELSE NoRow

-----------------------------------------------------------------------------
(* EnrichmentPipeline, step 2: the symbols of a scope *)

\* [...new Set(a)]: first occurrences, in order
RECURSIVE uniq(_)
uniq(a) ==
    IF a = <<>> THEN <<>>
    ELSE LET r == uniq(SubSeq(a, 1, Len(a) - 1))
             last == a[Len(a)]
         IN  IF \E i \in 1..Len(r) : r[i] = last THEN r ELSE Append(r, last)

mapSymbolsNoDedupe(assets) ==
    SelectSeq([i \in 1..Len(assets) |-> extractSymbol(assets[i].id)], TruthyStr)

\* [...new Set(assets.map(asset => asset.id?.split('_')[0] || ''))].filter(Boolean)
scopeSymbols(assets) ==
    SelectSeq(uniq([i \in 1..Len(assets) |-> extractSymbol(assets[i].id)]), TruthyStr)

-----------------------------------------------------------------------------
(* AssetValuator *)

\* the revisions that look the price row up without testing the symbol
UnguardedLookup(r, rt) == r = "part000" /\ rt \in {"account", "assets"}

\* the handlers that look for a nested data object in the upstream record
ShapeAware(r, rt) == r = "index" /\ rt \in {"assets", "asset"}

symbolOf(rt, asset, assetId) ==
    IF rt = "asset" THEN extractUrlSymbol(assetId) ELSE extractSymbol(asset.id)

priceDataOf(r, rt, symbol, prices) ==
    IF rt = "asset" \/ UnguardedLookup(r, rt) \/ TruthyStr(symbol)
    THEN lookup(prices, symbol)
    ELSE NoRow

balanceOf(r, rt, asset) ==
    IF r = "index" /\ rt = "asset"
    THEN IF asset.data.t = "object" /\ TruthyStr(asset.data.available)
         THEN parseFloat(asset.data.available.s)
         ELSE IF TruthyStr(asset.available)
              THEN parseFloat(asset.available.s)
              ELSE Num(0)
    ELSE parseFloat(IF TruthyStr(asset.available) THEN asset.available.s ELSE <<"0">>)

\* a valuation that puts 0 where there is no price
zeroWithoutPrice(balance, price) ==
    IF Truthy(price) THEN Mul(balance, price) ELSE Num(0)

\* priceData?.USD ? balance * priceData.USD : null
calculatedValue(balance, price) ==
    IF Truthy(price) THEN Mul(balance, price) ELSE Null

valuate(r, rt, asset, assetId, prices) ==
    LET symbol == symbolOf(rt, asset, assetId)
        priceData == priceDataOf(r, rt, symbol, prices)
        balance == balanceOf(r, rt, asset)
    IN  [raw |-> asset,
         at |-> IF ShapeAware(r, rt) /\ asset.data.t = "object" THEN "data" ELSE "top",
         unitPrice |-> IF priceData.t = "object" THEN priceData ELSE NullRow,
         calculatedValues |->
             Row(calculatedValue(balance, priceData.USD),
                 calculatedValue(balance, priceData.AUD))]

valuateAll(r, rt, assets, prices) ==
    [i \in 1..Len(assets) |-> valuate(r, rt, assets[i], NoStr, prices)]

-----------------------------------------------------------------------------
(* AccountAggregator *)

\* x || 0
orZero(x) == IF Truthy(x) THEN x ELSE Num(0)

\* one step of the reduce, for one currency
addValue(r, acc, value) ==
    IF r = "index"
    THEN IF Truthy(value) /\ ~IsNaN(value) THEN Add(acc, value) ELSE acc
    ELSE Add(orZero(acc), orZero(value))

RECURSIVE reduceValues(_, _, _)
reduceValues(r, values, acc) ==
    IF values = <<>> THEN acc
    ELSE reduceValues(r, Tail(values), addValue(r, acc, Head(values)))

\* account.assets.reduce(..., { USD: 0, AUD: 0 })
aggregate(r, enriched) ==
    Row(reduceValues(r, [i \in 1..Len(enriched) |-> enriched[i].calculatedValues.USD], Num(0)),
        reduceValues(r, [i \in 1..Len(enriched) |-> enriched[i].calculatedValues.AUD], Num(0)))

-----------------------------------------------------------------------------
(* PriceFetcher *)

\* the same request sent with a body-carrying method
priceRequestPosted(symbols, currencies) ==
    [method |-> "POST",
     fsyms |-> join([i \in 1..Len(symbols) |-> symbols[i].s], ","),
     tsyms |-> join([i \in 1..Len(currencies) |-> <<currencies[i]>>], ",")]

\* the request getPrices sends: GET {base}/data/pricemulti?fsyms=..&tsyms=..
priceRequest(symbols, currencies) ==
    [method |-> "GET",
     fsyms |-> join([i \in 1..Len(symbols) |-> symbols[i].s], ","),
     tsyms |-> join([i \in 1..Len(currencies) |-> <<currencies[i]>>], ",")]

\* the requests one call of getPrices issues
getPricesSends(symbols, currencies) == <<priceRequest(symbols, currencies)>>

\* what the call settles to, given what the network did: the parsed body, or
\* a CryptoMarketDataError
getPricesSettles(outcome) ==
    IF outcome.kind = "ok"
    THEN [ok |-> TRUE, table |-> outcome.body]
    ELSE [ok |-> FALSE, table |-> EmptyTable]

-----------------------------------------------------------------------------
(* Bounds and input sets of the request pipeline *)

\* most accounts in one answer of getPagedVaultAccounts
MaxAccounts == 2
\* most assets in one answer of the wallet platform, over all its accounts
MaxAssets == 3

Revisions == {"index", "part000"}
Routes == {"accounts", "account", "assets", "asset"}
\* the first revision has the same handlers without enrichment
AllRevisions == {"first"} \cup Revisions
PassThroughRoutes == {"supported", "transactions"}

B_T == Str(<<"B", "_", "T">>)
E_T == Str(<<"E", "_", "T">>)
U_T == Str(<<"_", "T">>)
Two == Str(<<"2">>)
SymB == Str(<<"B">>)

\* asset identifiers the wallet platform answers with: two symbols, an
\* identifier with an empty first segment, and a missing identifier
WalletIds == {B_T, E_T, U_T, NoStr}
\* asset identifiers of the URL path (a path segment is never empty)
UrlIds == {B_T, U_T, Str(<<"E">>)}

FlatAssets == {RawAsset(id, Two, NoData) : id \in WalletIds}
\* the single-asset and asset-list answers may nest their fields under data
ShapedAssets == FlatAssets \cup {RawAsset(B_T, NoStr, Data(Two)), RawAsset(NoStr, NoStr, Data(Two))}

SeqsUpTo(S, n) == UNION {[1..m -> S] : m \in 0..n}

\* the assets field of an account: missing, or an array
AssetArrays(n) == {NoArr} \cup {Arr(a) : a \in SeqsUpTo(FlatAssets, n)}

Account(i, assets) == [id |-> i, assets |-> assets, assetBalances |-> NoRow]

RECURSIVE totalAssets(_)
totalAssets(accts) ==
    IF accts = <<>> THEN 0 ELSE Len(Head(accts).assets.a) + totalAssets(Tail(accts))

\* the lists of n accounts that hold at most budget assets in all
RECURSIVE AccountSeqs(_, _)
AccountSeqs(n, budget) ==
    IF n = 0 THEN {<<>>}
    ELSE UNION {{Append(front, Account(n, assets)) :
                     assets \in AssetArrays(budget - totalAssets(front))} :
                 front \in AccountSeqs(n - 1, budget)}

AccountLists == UNION {AccountSeqs(n, MaxAssets) : n \in 0..MaxAccounts}

\* what the market-data endpoint may answer with for one priced symbol
PricedRow == Row(Num(3), Num(5))

\* the price tables an answer to a request for the given symbols may hold:
\* each requested symbol is priced or left out
Tables(symbols) ==
    LET asked == {symbols[i] : i \in 1..Len(symbols)}
    IN  {[x \in S |-> PricedRow] : S \in SUBSET asked}

\* a body that is JSON but no price table: the endpoint's error object
ErrorBody == [x \in {Str(<<"Response">>)} |-> Str(<<"Error">>)]

\* what the network may do with one request: fetch rejects, the status is not
\* 2xx, response.json() rejects, or a 2xx response carries a JSON body - a
\* price table or something else
Outcomes(symbols) ==
    {[kind |-> f, body |-> EmptyTable] : f \in {"transport", "status", "unparsable"}}
        \cup {[kind |-> "ok", body |-> t] : t \in Tables(symbols) \cup {ErrorBody}}

\* what the text of an error's message may hold, as far as the catch blocks
\* look at it
Messages == {"other", "not found", "not supported", "401"}

\* errors the wallet platform's client may raise: with or without a numeric
\* status, with each kind of message
ErrorStatuses == {Undefined, Num(401), Num(403), Num(404)}

WalletErrors == [status : ErrorStatuses, message : Messages]

-----------------------------------------------------------------------------
(* Responses *)

NoResp == [status |-> 0, body |-> [kind |-> "none"]]

\* JSON.stringify of a row of numbers
jsonRow(row) == [row EXCEPT !.USD = JsonNum(@), !.AUD = JsonNum(@)]

jsonAsset(e) ==
    IF "unitPrice" \in DOMAIN e
    THEN [e EXCEPT !.unitPrice = jsonRow(@), !.calculatedValues = jsonRow(@)]
    ELSE e

jsonAssets(arr) ==
    IF arr.t = "array" THEN Arr([i \in 1..Len(arr.a) |-> jsonAsset(arr.a[i])]) ELSE arr

jsonAccount(acct) ==
    [acct EXCEPT !.assets = jsonAssets(@), !.assetBalances = jsonRow(@)]

\* error.status || 500
statusOf(err) == IF Truthy(err.status) THEN err.status.v ELSE 500

\* the first revision wraps every rejection of the wallet platform's client
\* into a FireblocksApiError
wrapFireblocksCall(err) ==
    IF err.message = "401"
    THEN [status |-> Num(401), message |-> "Authentication failed", cause |-> err.cause]
    ELSE [status |-> Num(500), message |-> "API error", cause |-> err.cause]

\* the messages the catch block of the single-asset handler answers 404 for
NotFoundMessages(r) ==
    CASE r = "index" -> {"not found", "not supported"}
      [] r = "part000" -> {"not found"}
      [] OTHER -> {}

\* c.json({ error, status }, status) of the catch blocks; the first revision
\* answers c.json({ error }, status)
errorResponse(r, rt, err) ==
    IF r = "first"
    THEN [status |-> statusOf(wrapFireblocksCall(err)),
          body |-> [kind |-> "error", error |-> wrapFireblocksCall(err).message,
                    cause |-> err.cause]]
    ELSE IF rt = "asset" /\ err.message \in NotFoundMessages(r)
    THEN [status |-> 404,
          body |-> [kind |-> "error", error |-> "descriptive", status |-> 404,
                    cause |-> err.cause]]
    ELSE [status |-> statusOf(err),
          body |-> [kind |-> "error", error |-> err.message, status |-> statusOf(err),
                    cause |-> err.cause]]

\* the rejection of Effect.runPromise(getPrices(..)): a CryptoMarketDataError
\* has no status
PriceFailure == [status |-> Undefined, message |-> "other", cause |-> "prices"]

walletFailure(err) == [status |-> err.status, message |-> err.message, cause |-> "wallet"]

\* the handlers that let a failed price fetch escape to the outer catch
PriceFailureEscapes(r, rt) == r = "part000" /\ rt \in {"accounts", "account", "assets"}

-----------------------------------------------------------------------------
(* Setup: configuration, credential, and the application it yields *)

\* which settings are present, and the state of the credential file
Configs ==
    [apiKey : BOOLEAN, secretPath : BOOLEAN, cryptoMarketDataApi : BOOLEAN,
     key : {"unreadable", "no marker", "ok"}]

NoConfig == [apiKey |-> FALSE, secretPath |-> FALSE, cryptoMarketDataApi |-> FALSE,
             key |-> "none"]

Succeeds == [ok |-> TRUE, error |-> "none"]
Fails(error) == [ok |-> FALSE, error |-> error]

\* the first revision's getConfig: no market-data setting
getConfigFirst(cfg) ==
    IF ~cfg.apiKey THEN Fails("Missing FIREBLOCKS_API_KEY")
    ELSE IF ~cfg.secretPath THEN Fails("Missing FIREBLOCKS_API_SECRET_PATH")
    ELSE Succeeds

getConfig(cfg) ==
    IF ~cfg.apiKey THEN Fails("Missing FIREBLOCKS_API_KEY")
    ELSE IF ~cfg.secretPath THEN Fails("Missing FIREBLOCKS_API_SECRET_PATH")
    ELSE IF ~cfg.cryptoMarketDataApi THEN Fails("Missing CRYPTO_MARKET_DATA_API")
    ELSE Succeeds

readPrivateKey(cfg) ==
    IF cfg.key = "unreadable" THEN Fails("Failed to read private key")
    ELSE IF cfg.key # "ok" THEN Fails("Invalid private key format")
    ELSE Succeeds

\* createAppEnv: the first failure ends it
createAppEnv(cfg) ==
    IF ~getConfig(cfg).ok THEN getConfig(cfg) ELSE readPrivateKey(cfg)

\* setupApp: the application with its routes, or the fallback application of
\* Effect.catchAll; it never fails
setupApp(cfg) == IF createAppEnv(cfg).ok THEN "app" ELSE "fallback"

\* fallbackApp.all('*', ..)
fallbackResponse ==
    [status |-> 500,
     body |-> [kind |-> "error", error |-> "Server configuration error", status |-> 500,
               cause |-> "setup"]]

Methods == {"GET", "POST"}

\* the paths of a request: the six routes that call the wallet platform, the
\* root, and a path no route matches
Paths == Routes \cup PassThroughRoutes \cup {"root", "unknown"}

\* the call of the wallet platform's client that each handler starts with
walletCall(rt) ==
    CASE rt = "accounts" -> "getPagedVaultAccounts"
      [] rt = "account" -> "getVaultAccount"
      [] rt = "assets" -> "getVaultAccountAssetsByVaultAccountId"
      [] rt = "asset" -> "getVaultAccountAsset"
      [] rt = "supported" -> "getSupportedAssets"
      [] rt = "transactions" -> "getTransactions"

\* app.fetch(request) of the application with its routes, for the requests
\* that reach no wallet-calling handler
routedResponse(m, rt) ==
    IF m = "GET" /\ rt = "root"
    THEN [status |-> 200, body |-> [kind |-> "message"]]
    ELSE [status |-> 404, body |-> [kind |-> "text"]]

-----------------------------------------------------------------------------
(* EnrichmentPipeline: the four enrichment handlers, one request *)

NoArg == [kind |-> "none"]

Init ==
    /\ inflight = <<>>
    /\ setups = 0
    /\ config \in Configs
    /\ method = "none"
    /\ walletCalls = <<>>
    /\ rev \in Revisions
    /\ route = "none"
    /\ pc = "start"
    /\ urlAssetId = NoStr
    /\ upstream = NoArr
    /\ wallet = NoArr
    /\ k = 0
    /\ scopeSyms = <<>>
    /\ calls = <<>>
    /\ net = <<>>
    /\ resp = NoResp
    /\ arg = NoArg
    /\ ret = NoArg

\* the process starts: setupApp is run once, and since it never fails the
\* process is not ended
Startup ==
    /\ pc = "start"
    /\ pc' = IF setupApp(config) \in {"app", "fallback"} THEN "idle" ELSE "exited"
    /\ setups' = setups + 1
    /\ UNCHANGED <<inflight, config, method, walletCalls, rev, route, urlAssetId, upstream, wallet, k,
                   scopeSyms, calls, net, resp, arg, ret>>

\* default.fetch: setupApp is run again and the request is handed to the
\* application it yields; a wallet-calling handler starts with its call
Request ==
    /\ pc = "idle"
    /\ \E m \in Methods, rt \in Paths, assetId \in UrlIds :
           /\ method' = m
           /\ route' = rt
           /\ urlAssetId' = IF rt = "asset" THEN assetId ELSE NoStr
           /\ IF setupApp(config) = "fallback"
              THEN /\ resp' = fallbackResponse
                   /\ pc' = "done"
                   /\ walletCalls' = walletCalls
              ELSE IF m = "GET" /\ rt \in Routes \cup PassThroughRoutes
              THEN /\ walletCalls' = Append(walletCalls, walletCall(rt))
                   /\ pc' = "wallet"
                   /\ resp' = resp
              ELSE /\ resp' = routedResponse(m, rt)
                   /\ pc' = "done"
                   /\ walletCalls' = walletCalls
    /\ setups' = setups + 1
    /\ UNCHANGED <<inflight, config, rev, upstream, wallet, k, scopeSyms, calls, net, arg, ret>>

\* a handler that had sent its price request before the client rejected
WalletFailsAfterFetch ==
    /\ pc = "wallet"
    /\ \E err \in WalletErrors : resp' = errorResponse(rev, route, walletFailure(err))
    /\ net' = net \o getPricesSends(<<SymB>>, Currencies)
    /\ pc' = "done"
    /\ UNCHANGED <<inflight, setups, config, method, walletCalls, rev, route, urlAssetId, upstream, wallet, k, scopeSyms, calls, arg, ret>>

\* the wallet platform's client rejects: the outer catch answers
WalletFails ==
    /\ pc = "wallet"
    /\ \E err \in WalletErrors : resp' = errorResponse(rev, route, walletFailure(err))
    /\ pc' = "done"
    /\ UNCHANGED <<inflight, setups, config, method, walletCalls, rev, route, urlAssetId, upstream, wallet, k, scopeSyms, calls, net, arg, ret>>

\* a handler that starts the fetch of the next scope together with this one
\* and awaits only the first
startsTwoFetches(log, scope, symbols) ==
    /\ calls' = log \o [i \in 1..2 |->
                            [scope |-> scope + i - 1, symbols |-> symbols,
                             currencies |-> Currencies, settled |-> "pending",
                             table |-> EmptyTable]]
    /\ net' = net \o getPricesSends(symbols, Currencies) \o getPricesSends(symbols, Currencies)
    /\ scopeSyms' = symbols
    /\ pc' = "price"
    /\ resp' = resp

\* the handler calls getPrices for a scope and awaits it; log is the record
\* of the earlier calls
awaitPrices(log, scope, symbols) ==
    /\ calls' = Append(log, [scope |-> scope, symbols |-> symbols,
                             currencies |-> Currencies, settled |-> "pending",
                             table |-> EmptyTable])
    /\ net' = net \o getPricesSends(symbols, Currencies)
    /\ scopeSyms' = symbols
    /\ pc' = "price"
    /\ resp' = resp

\* a handler that answered without returning: it stays where it was
respondsAndGoesOn(log, body) ==
    /\ resp' = [status |-> 200, body |-> body]
    /\ pc' = pc
    /\ calls' = log
    /\ UNCHANGED <<scopeSyms, net>>

\* c.json(body)
respond(log, body) ==
    /\ resp' = [status |-> 200, body |-> body]
    /\ pc' = "done"
    /\ calls' = log
    /\ UNCHANGED <<scopeSyms, net>>

\* the price fetch failed in a handler that does not catch it
priceFailureAnswers(log) ==
    /\ resp' = errorResponse(rev, route, PriceFailure)
    /\ pc' = "done"
    /\ calls' = log
    /\ UNCHANGED <<wallet, k, scopeSyms, net>>

\* the record of calls once the call in flight has settled
settle(log, result) ==
    [log EXCEPT ![Len(log)].settled = IF result.ok THEN "ok" ELSE "failed",
                ![Len(log)].table = result.table]

\* the table the handler valuates with once the fetch has settled
settledTable(result) == IF result.ok THEN result.table ELSE EmptyTable

(* GET /api/vault-accounts *)

\* valuation and aggregation of one account, with its price table
\* (the mapped assets are computed once and then both stored and reduced)
finishAccount(r, rt, acct, prices) ==
    CHOOSE finished \in
        {[acct EXCEPT !.assets = Arr(enriched), !.assetBalances = aggregate(r, enriched)] :
             enriched \in {valuateAll(r, rt, acct.assets.a, prices)}} : TRUE

\* the for..of loop from account i on, up to the next awaited price fetch
RECURSIVE runAccounts(_, _, _)
runAccounts(r, accts, i) ==
    IF i > Len(accts)
    THEN [accounts |-> accts, next |-> i, symbols |-> <<>>, wait |-> FALSE]
    ELSE IF r = "index" /\ accts[i].assets.t # "array"
    THEN runAccounts(r, accts, i + 1)
    ELSE LET symbols == scopeSymbols(accts[i].assets.a)
         IN  IF symbols # <<>>
             THEN [accounts |-> accts, next |-> i, symbols |-> symbols, wait |-> TRUE]
             ELSE runAccounts(r, [accts EXCEPT ![i] = finishAccount(r, "accounts", @, EmptyTable)],
                              i + 1)

accountsBody(accts) ==
    [kind |-> "accounts",
     accounts |-> Arr([i \in 1..Len(accts) |-> jsonAccount(accts[i])])]

continueAccounts(log, accts, i) ==
    \E run \in {runAccounts(rev, accts, i)} :
        /\ wallet' = Arr(run.accounts)
        /\ k' = run.next
        /\ IF run.wait
           THEN awaitPrices(log, run.next, run.symbols)
           ELSE respond(log, accountsBody(run.accounts))

WalletReturnsAccounts ==
    /\ pc = "wallet"
    /\ route = "accounts"
    /\ \E accts \in AccountLists :
           /\ upstream' = Arr(accts)
           /\ continueAccounts(calls, accts, 1)
    /\ UNCHANGED <<inflight, setups, config, method, walletCalls, rev, route, urlAssetId, arg, ret>>

\* the answer has no data.accounts array: it is passed through
WalletReturnsNoAccounts ==
    /\ pc = "wallet"
    /\ route = "accounts"
    /\ upstream' = NoArr
    /\ wallet' = NoArr
    /\ respond(calls, [kind |-> "accounts", accounts |-> NoArr])
    /\ UNCHANGED <<inflight, setups, config, method, walletCalls, rev, route, urlAssetId, k, arg, ret>>

PriceSettlesAccounts ==
    /\ pc = "price"
    /\ route = "accounts"
    /\ \E outcome \in Outcomes(scopeSyms) :
       LET result == getPricesSettles(outcome)
       IN  IF ~result.ok /\ PriceFailureEscapes(rev, route)
           THEN priceFailureAnswers(settle(calls, result))
           ELSE \E valuated \in {finishAccount(rev, route, wallet.a[k], settledTable(result))} :
                    continueAccounts(settle(calls, result),
                                     [wallet.a EXCEPT ![k] = valuated], k + 1)
    /\ UNCHANGED <<inflight, setups, config, method, walletCalls, rev, route, urlAssetId, upstream, arg, ret>>

(* GET /api/vault-accounts/:vaultAccountId *)

accountBody(acct) == [kind |-> "account", account |-> jsonAccount(acct)]

WalletReturnsAccount ==
    /\ pc = "wallet"
    /\ route = "account"
    /\ k' = 1
    /\ \E assets \in AssetArrays(MaxAssets) :
       LET acct == Account(1, assets)
           symbols == scopeSymbols(acct.assets.a)
       IN  /\ upstream' = acct
           /\ wallet' = acct
           /\ IF acct.assets.t # "array"
              THEN respond(calls, accountBody(acct))
              ELSE IF symbols # <<>>
              THEN awaitPrices(calls, 1, symbols)
              ELSE respond(calls, accountBody(finishAccount(rev, route, acct, EmptyTable)))
    /\ UNCHANGED <<inflight, setups, config, method, walletCalls, rev, route, urlAssetId, arg, ret>>

PriceSettlesAccount ==
    /\ pc = "price"
    /\ route = "account"
    /\ \E outcome \in Outcomes(scopeSyms) :
       LET result == getPricesSettles(outcome)
       IN  IF ~result.ok /\ PriceFailureEscapes(rev, route)
           THEN priceFailureAnswers(settle(calls, result))
           ELSE /\ respond(settle(calls, result),
                           accountBody(finishAccount(rev, route, wallet, settledTable(result))))
                /\ UNCHANGED <<wallet, k>>
    /\ UNCHANGED <<inflight, setups, config, method, walletCalls, rev, route, urlAssetId, upstream, arg, ret>>

(* GET /api/vault-accounts/:vaultAccountId/assets *)

assetsBody(enriched) ==
    [kind |-> "assets", assets |-> jsonAssets(Arr(enriched))]

WalletReturnsAssets ==
    /\ pc = "wallet"
    /\ route = "assets"
    /\ \E answer \in {NoArr} \cup {Arr(a) : a \in SeqsUpTo(ShapedAssets, MaxAssets)} :
       LET assets == IF answer.t = "array" THEN answer.a ELSE <<>>
           symbols == scopeSymbols(assets)
       IN  /\ upstream' = answer
           /\ wallet' = Arr(assets)
           /\ k' = 1
           /\ IF assets = <<>>
              THEN respond(calls, assetsBody(<<>>))
              ELSE IF symbols # <<>>
              THEN awaitPrices(calls, 1, symbols)
              ELSE respond(calls, assetsBody(valuateAll(rev, route, assets, EmptyTable)))
    /\ UNCHANGED <<inflight, setups, config, method, walletCalls, rev, route, urlAssetId, arg, ret>>

PriceSettlesAssets ==
    /\ pc = "price"
    /\ route = "assets"
    /\ \E outcome \in Outcomes(scopeSyms) :
       LET result == getPricesSettles(outcome)
       IN  IF ~result.ok /\ PriceFailureEscapes(rev, route)
           THEN priceFailureAnswers(settle(calls, result))
           ELSE /\ respond(settle(calls, result),
                           assetsBody(valuateAll(rev, route, wallet.a, settledTable(result))))
                /\ UNCHANGED <<wallet, k>>
    /\ UNCHANGED <<inflight, setups, config, method, walletCalls, rev, route, urlAssetId, upstream, arg, ret>>

(* GET /api/vault-accounts/:vaultAccountId/:assetId *)

assetBody(enriched) == [kind |-> "asset", asset |-> jsonAsset(enriched)]

\* the price fetch of this handler is unconditional
WalletReturnsAsset ==
    /\ pc = "wallet"
    /\ route = "asset"
    /\ \E asset \in ShapedAssets :
           /\ upstream' = asset
           /\ wallet' = asset
    /\ k' = 1
    /\ awaitPrices(calls, 1, <<extractUrlSymbol(urlAssetId)>>)
    /\ UNCHANGED <<inflight, setups, config, method, walletCalls, rev, route, urlAssetId, arg, ret>>

PriceSettlesAsset ==
    /\ pc = "price"
    /\ route = "asset"
    /\ \E outcome \in Outcomes(scopeSyms) :
       LET result == getPricesSettles(outcome)
       IN  respond(settle(calls, result),
                   assetBody(valuate(rev, route, wallet, urlAssetId, settledTable(result))))
    /\ UNCHANGED <<inflight, setups, config, method, walletCalls, rev, route, urlAssetId, upstream, wallet, k, arg, ret>>

(* GET /api/supported-assets and GET /api/transactions *)

\* longest list the wallet platform answers these two routes with
MaxListed == 2

\* the elements of those lists: with an id, or without one
ListedItems == {[id |-> SymB], [id |-> NoStr]}

\* the answers of getSupportedAssets: nothing, a list, a list under one of
\* three keys, or an object of another structure
ListShapes == {"array", "data", "assets", "supportedAssets"}

SupportedAnswers ==
    {[shape |-> sh, list |-> <<>>] : sh \in {"null", "unknown"}}
        \cup {[shape |-> sh, list |-> l] :
                  sh \in ListShapes, l \in SeqsUpTo(ListedItems, MaxListed)}

\* asset && typeof asset === 'object' && asset.id
validAsset(asset) == TruthyStr(asset.id)

listBody(list) == [kind |-> "list", list |-> list]

\* what handleSupportedAssets answers with
supportedBody(r, answer) ==
    IF r = "index"
    THEN IF answer.shape = "null" THEN listBody(<<>>)
         ELSE IF answer.shape = "unknown" THEN [kind |-> "raw", raw |-> answer]
         ELSE IF answer.list = <<>> THEN listBody(<<>>)
         ELSE listBody(SelectSeq(answer.list, validAsset))
    ELSE IF answer.shape \in {"array", "data"} THEN listBody(answer.list)
         ELSE listBody(<<>>)

WalletReturnsSupported ==
    /\ pc = "wallet"
    /\ route = "supported"
    /\ \E answer \in SupportedAnswers :
           /\ upstream' = answer
           /\ wallet' = answer
           /\ respond(calls, supportedBody(rev, answer))
    /\ UNCHANGED <<inflight, setups, config, method, walletCalls, rev, route, urlAssetId, k, arg, ret>>

WalletReturnsTransactions ==
    /\ pc = "wallet"
    /\ route = "transactions"
    /\ \E transactions \in SeqsUpTo(ListedItems, MaxListed) :
           /\ upstream' = Arr(transactions)
           /\ wallet' = Arr(transactions)
           /\ respond(calls, listBody(transactions))
    /\ UNCHANGED <<inflight, setups, config, method, walletCalls, rev, route, urlAssetId, k, arg, ret>>

Next ==
    \/ Startup
    \/ Request
    \/ WalletFails
    \/ WalletReturnsAccounts
    \/ WalletReturnsNoAccounts
    \/ PriceSettlesAccounts
    \/ WalletReturnsAccount
    \/ PriceSettlesAccount
    \/ WalletReturnsAssets
    \/ PriceSettlesAssets
    \/ WalletReturnsAsset
    \/ PriceSettlesAsset
    \/ WalletReturnsSupported
    \/ WalletReturnsTransactions

Spec == Init /\ [][Next]_vars

\* the steps in which a call of the wallet platform's client or a price fetch
\* returns or fails
Settles ==
    \/ WalletFails
    \/ WalletReturnsAccounts
    \/ WalletReturnsNoAccounts
    \/ PriceSettlesAccounts
    \/ WalletReturnsAccount
    \/ PriceSettlesAccount
    \/ WalletReturnsAssets
    \/ PriceSettlesAssets
    \/ WalletReturnsAsset
    \/ PriceSettlesAsset
    \/ WalletReturnsSupported
    \/ WalletReturnsTransactions

\* every awaited promise settles; the arrival of a request is not forced
FairSpec == Spec /\ WF_vars(Settles)

-----------------------------------------------------------------------------
(* Properties of the request pipeline *)

Min(a, b) == IF a < b THEN a ELSE b

ZeroRow == Row(Num(0), Num(0))

\* the scopes whose price fetch failed
FailedScopes == {calls[i].scope : i \in {j \in 1..Len(calls) : calls[j].settled = "failed"}}

\* the scopes the handler has entered: accounts of the list up to the one in
\* hand, or the one scope of the other routes
Entered ==
    IF k = 0 THEN {}
    ELSE IF route = "accounts" THEN 1..Min(k, Len(upstream.a))
    ELSE {1}

\* the upstream assets of a scope
ScopeAssets(s) ==
    CASE route = "accounts" -> upstream.a[s].assets.a
      [] route = "account" -> upstream.assets.a
      [] route = "assets" -> upstream.a
      [] route = "asset" -> <<upstream>>

\* the assets of a scope in a success response
RespAssets(s) ==
    CASE route = "accounts" -> resp.body.accounts.a[s].assets.a
      [] route = "account" -> resp.body.account.assets.a
      [] route = "assets" -> resp.body.assets.a
      [] route = "asset" -> <<resp.body.asset>>

\* the non-empty symbols of a scope
ScopeSymbolSet(s) ==
    (IF route = "asset"
     THEN {extractUrlSymbol(urlAssetId)}
     ELSE {extractSymbol(ScopeAssets(s)[i].id) : i \in 1..Len(ScopeAssets(s))})
        \ {Str(<<>>)}

CallsOf(s) == {i \in 1..Len(calls) : calls[i].scope = s}

NullPriced(e) == e.unitPrice = NullRow /\ e.calculatedValues = NullRow

\* C1: on the account-list and single-account routes a failed price fetch
\* still ends in a success response, in which the account of the failed scope
\* has every asset priced null and assetBalances {USD: 0, AUD: 0}.
C1_PriceFailureDegradesAccounts ==
    (pc = "done" /\ route \in {"accounts", "account"} /\ FailedScopes # {}) =>
        /\ resp.status = 200
        /\ \A s \in FailedScopes :
              /\ \A i \in 1..Len(RespAssets(s)) : NullPriced(RespAssets(s)[i])
              /\ (IF route = "accounts"
                  THEN resp.body.accounts.a[s].assetBalances
                  ELSE resp.body.account.assetBalances) = ZeroRow

\* C2: on the asset-list and single-asset routes a failed price fetch still
\* ends in a success response that carries every upstream asset, each priced
\* null.
C2_PriceFailureKeepsBalances ==
    (pc = "done" /\ route \in {"assets", "asset"} /\ FailedScopes # {}) =>
        /\ resp.status = 200
        /\ Len(RespAssets(1)) = Len(ScopeAssets(1))
        /\ \A i \in 1..Len(RespAssets(1)) :
              /\ RespAssets(1)[i].raw = ScopeAssets(1)[i]
              /\ NullPriced(RespAssets(1)[i])

\* C4: for every scope entered whose symbol set is not empty, getPrices has
\* been called exactly once, with every symbol of the scope exactly once and
\* with the currencies USD and AUD, and each call has sent exactly one request
\* that names those symbols and currencies.
C4_OneFetchPerScope ==
    /\ Len(net) = Len(calls)
    /\ \A s \in Entered :
          ScopeSymbolSet(s) # {} =>
              /\ Cardinality(CallsOf(s)) = 1
              /\ \A i \in CallsOf(s) :
                    /\ {calls[i].symbols[j] : j \in 1..Len(calls[i].symbols)} = ScopeSymbolSet(s)
                    /\ Len(calls[i].symbols) = Cardinality(ScopeSymbolSet(s))
                    /\ calls[i].currencies \in {<<"USD", "AUD">>, <<"AUD", "USD">>}
                    /\ split(net[i].fsyms, ",")
                           = [j \in 1..Len(calls[i].symbols) |-> calls[i].symbols[j].s]
                    /\ split(net[i].tsyms, ",")
                           = [j \in 1..Len(calls[i].currencies) |-> <<calls[i].currencies[j]>>]

\* a request has ended after a scope of three assets with two symbols was
\* fetched for, and the fetch failed
C4_Witness ==
    /\ pc = "done"
    /\ \E s \in Entered :
          /\ Len(ScopeAssets(s)) = 3
          /\ Cardinality(ScopeSymbolSet(s)) = 2
          /\ s \in FailedScopes

\* C5: for every scope entered whose symbol set is empty, getPrices is never
\* called, and the success response prices every asset of the scope null.
C5_EmptyScopeNeverFetches ==
    \A s \in Entered :
        ScopeSymbolSet(s) = {} =>
            /\ CallsOf(s) = {}
            /\ (pc = "done" /\ resp.status = 200) =>
                   \A i \in 1..Len(RespAssets(s)) : NullPriced(RespAssets(s)[i])

\* C6: no call of getPrices carries an empty symbol.
C6_NoEmptySymbolFetched ==
    \A i \in 1..Len(calls) :
        \A j \in 1..Len(calls[i].symbols) : calls[i].symbols[j] # Str(<<>>)

\* a required setting is absent, or the credential file is unreadable or has
\* no private-key marker
SetupFails ==
    \/ ~config.apiKey
    \/ ~config.secretPath
    \/ ~config.cryptoMarketDataApi
    \/ config.key # "ok"

\* C13: if setup fails, the process is not ended, every request - whatever
\* its route and method - is answered 500 with a JSON body that explains, and
\* neither the wallet platform nor the market-data endpoint is ever called.
C13_SetupFailureAnswers500 ==
    SetupFails =>
        /\ pc \in {"start", "idle", "done"}
        /\ walletCalls = <<>>
        /\ calls = <<>>
        /\ net = <<>>
        /\ pc = "done" =>
               /\ resp.status = 500
               /\ resp.body.kind = "error"
               /\ resp.body.error = "Server configuration error"
               /\ resp.body.status = 500

\* a POST to the single-asset path was answered while only the market-data
\* setting was absent
C13_Witness ==
    /\ pc = "done"
    /\ config = [apiKey |-> TRUE, secretPath |-> TRUE, cryptoMarketDataApi |-> FALSE,
                 key |-> "ok"]
    /\ method = "POST"
    /\ route = "asset"
    /\ resp.status = 500

\* an asset of a response without its pricing fields
stripAsset(e) == IF "raw" \in DOMAIN e THEN e.raw ELSE e

\* the assets field of a response without the pricing fields of its elements
stripAssets(arr) ==
    IF arr.t = "array" THEN Arr([i \in 1..Len(arr.a) |-> stripAsset(arr.a[i])]) ELSE arr

\* an account of a response without its pricing fields
stripAccount(acct) == [id |-> acct.id, assets |-> stripAssets(acct.assets)]

\* C14: a success response of an enrichment route holds every upstream
\* account and asset in the upstream order, and apart from unitPrice,
\* calculatedValues and assetBalances every field is as it arrived.
C14_EnrichmentOnlyAddsPricing ==
    (pc = "done" /\ resp.status = 200 /\ method = "GET" /\ route \in Routes) =>
        CASE route = "accounts" ->
                 /\ resp.body.accounts.t = upstream.t
                 /\ Len(resp.body.accounts.a) = Len(upstream.a)
                 /\ \A i \in 1..Len(upstream.a) :
                        stripAccount(resp.body.accounts.a[i]) = stripAccount(upstream.a[i])
          [] route = "account" -> stripAccount(resp.body.account) = stripAccount(upstream)
          [] route = "assets" ->
                 upstream.t = "array" => stripAssets(resp.body.assets) = upstream
          [] route = "asset" -> stripAsset(resp.body.asset) = upstream

\* C15: a success response of GET /api/supported-assets or of GET
\* /api/transactions is the list the wallet platform answered with, element
\* for element, and handling these routes calls getPrices never.
C15_PassThroughLists ==
    (method = "GET" /\ route \in PassThroughRoutes) =>
        /\ calls = <<>>
        /\ net = <<>>
        /\ (pc = "done" /\ resp.status = 200) =>
               IF route = "transactions"
               THEN resp.body = listBody(upstream.a)
               ELSE upstream.shape \in ListShapes => resp.body = listBody(upstream.list)

\* the accounts of a success response of the two account routes
RespAccounts ==
    IF route = "accounts" THEN resp.body.accounts.a ELSE <<resp.body.account>>

\* every asset of the account has both pricing fields
AssetsPriced(acct) ==
    \A i \in 1..Len(acct.assets.a) :
        {"unitPrice", "calculatedValues"} \subseteq DOMAIN acct.assets.a[i]

\* no asset of the account has a value in any currency
NothingPriced(acct) ==
    \A i \in 1..Len(acct.assets.a) :
        "calculatedValues" \in DOMAIN acct.assets.a[i] =>
            acct.assets.a[i].calculatedValues = NullRow

\* C16: in a success response of the account-list and single-account routes
\* every account, also one with an empty or missing asset list, has
\* assetBalances with numbers for USD and AUD, both 0 when nothing is priced,
\* and every asset has unitPrice and calculatedValues.
C16_AccountsCarryBalances ==
    (pc = "done" /\ resp.status = 200 /\ method = "GET" /\ route \in {"accounts", "account"}) =>
        \A n \in 1..Len(RespAccounts) :
            LET acct == RespAccounts[n]
            IN  /\ acct.assetBalances.t = "object"
                /\ acct.assetBalances.USD.t = "number"
                /\ acct.assetBalances.AUD.t = "number"
                /\ NothingPriced(acct) => acct.assetBalances = ZeroRow
                /\ AssetsPriced(acct)

-----------------------------------------------------------------------------
(* The components on their own: each is applied to inputs drawn at the start *)

\* the pipeline's variables while a component is studied on its own
noRequest ==
    /\ inflight = <<>>
    /\ setups = 0
    /\ config = NoConfig
    /\ method = "none"
    /\ walletCalls = <<>>
    /\ rev = "none"
    /\ route = "none"
    /\ urlAssetId = NoStr
    /\ upstream = NoArr
    /\ wallet = NoArr
    /\ k = 0
    /\ scopeSyms = <<>>
    /\ calls = <<>>
    /\ resp = NoResp

returns(value) ==
    /\ pc = "call"
    /\ ret' = value
    /\ pc' = "returned"
    /\ UNCHANGED <<inflight, setups, config, method, walletCalls, rev, route, urlAssetId, upstream, wallet, k, scopeSyms, calls, net, resp, arg>>

(* SymbolExtractor *)

\* longest identifier drawn
MaxIdLen == 3

IdChars == {"B", "T", "_"}

ExtractArgs ==
    {[kind |-> "extract", rt |-> rt, id |-> id] :
        rt \in Routes \ {"asset"},
        id \in {NoStr} \cup {Str(s) : s \in SeqsUpTo(IdChars, MaxIdLen)}}
    \cup
    {[kind |-> "extract", rt |-> "asset", id |-> Str(s)] :
        s \in SeqsUpTo(IdChars, MaxIdLen) \ {<<>>}}

InitExtract ==
    /\ noRequest
    /\ pc = "call"
    /\ arg \in ExtractArgs
    /\ ret = NoArg
    /\ net = <<>>

Extracts == returns(symbolOf(arg.rt, RawAsset(arg.id, NoStr, NoData), arg.id))

SpecExtract == InitExtract /\ [][Extracts]_vars

(* AssetValuator *)

X == Str(<<"x">>)
Zero == Str(<<"0">>)

ValuateAssets ==
    {RawAsset(id, av, NoData) : id \in {B_T, U_T, NoStr}, av \in {Two, Zero, X, NoStr}}
        \cup {RawAsset(B_T, av, Data(Two)) : av \in {NoStr, Zero}}

\* a price of a row: missing, zero, or positive
PriceValues == {Undefined, Num(0), Num(3)}

ValuateTables ==
    {EmptyTable} \cup {[x \in {SymB} |-> Row(u, a)] : u, a \in PriceValues}

ValuateArgs ==
    {[kind |-> "valuate", r |-> r, rt |-> rt, asset |-> asset,
      assetId |-> assetId, prices |-> prices] :
        r \in Revisions, rt \in Routes \ {"asset"}, asset \in ValuateAssets,
        assetId \in {NoStr}, prices \in ValuateTables}
    \cup
    {[kind |-> "valuate", r |-> r, rt |-> "asset", asset |-> asset,
      assetId |-> assetId, prices |-> prices] :
        r \in Revisions, asset \in ValuateAssets,
        assetId \in {B_T, U_T}, prices \in ValuateTables}

InitValuate ==
    /\ noRequest
    /\ pc = "call"
    /\ arg \in ValuateArgs
    /\ ret = NoArg
    /\ net = <<>>

Valuates == returns(valuate(arg.r, arg.rt, arg.asset, arg.assetId, arg.prices))

SpecValuate == InitValuate /\ [][Valuates]_vars

(* AccountAggregator *)

\* most assets of the account aggregated
MaxAggAssets == 3

Inf == Str(<<"Infinity">>)
MinusInf == Str(<<"-", "Infinity">>)

\* assets whose available balance is a number, zero, unparsable or infinite,
\* and one asset without a price
AggAssets ==
    {RawAsset(B_T, av, NoData) : av \in {Two, Zero, X, Inf, MinusInf, Str(<<"7">>)}}
        \cup {RawAsset(E_T, Two, NoData)}

AggTable == [x \in {SymB} |-> PricedRow]

AggArgs ==
    {[kind |-> "aggregate", r |-> r, assets |-> assets] :
        r \in Revisions, assets \in SeqsUpTo(AggAssets, MaxAggAssets)}

InitAggregate ==
    /\ noRequest
    /\ pc = "call"
    /\ arg \in AggArgs
    /\ ret = NoArg
    /\ net = <<>>

Aggregates == returns(finishAccount(arg.r, "accounts", Account(1, Arr(arg.assets)), AggTable))

SpecAggregate == InitAggregate /\ [][Aggregates]_vars

(* PriceFetcher *)

\* most symbols of one call
MaxFetchSymbols == 3

FetchArgs ==
    {[kind |-> "getPrices", symbols |-> symbols] :
        symbols \in SeqsUpTo({SymB, Str(<<"E">>), Str(<<>>)}, MaxFetchSymbols)}

InitFetch ==
    /\ noRequest
    /\ pc = "call"
    /\ arg \in FetchArgs
    /\ ret = NoArg
    /\ net = <<>>

GetPricesCalled ==
    /\ pc = "call"
    /\ net' = net \o getPricesSends(arg.symbols, Currencies)
    /\ pc' = "fetching"
    /\ UNCHANGED <<inflight, setups, config, method, walletCalls, rev, route, urlAssetId, upstream, wallet, k, scopeSyms, calls, resp, arg, ret>>

GetPricesSettled ==
    /\ pc = "fetching"
    /\ \E outcome \in Outcomes(arg.symbols) : ret' = getPricesSettles(outcome)
    /\ pc' = "returned"
    /\ UNCHANGED <<inflight, setups, config, method, walletCalls, rev, route, urlAssetId, upstream, wallet, k, scopeSyms, calls, net, resp, arg>>

NextFetch == GetPricesCalled \/ GetPricesSettled

SpecFetch == InitFetch /\ [][NextFetch]_vars

(* The catch blocks of the handlers, in the three revisions of the gateway *)

\* the routes a revision registers a wallet-calling handler for
RoutesOf(r) ==
    IF r = "first"
    THEN {"accounts", "account", "asset"} \cup PassThroughRoutes
    ELSE Routes \cup PassThroughRoutes

CatchArgs ==
    {[kind |-> "catch", r |-> r, rt |-> rt, err |-> err] :
        r \in AllRevisions, rt \in Routes \cup PassThroughRoutes, err \in WalletErrors}

InitCatch ==
    /\ noRequest
    /\ pc = "call"
    /\ arg \in {a \in CatchArgs : a.rt \in RoutesOf(a.r)}
    /\ ret = NoArg
    /\ net = <<>>

Catches == returns(errorResponse(arg.r, arg.rt, walletFailure(arg.err)))

SpecCatch == InitCatch /\ [][Catches]_vars

(* The router: the routes each revision registers, in the order of setupApp *)

\* longest path drawn, in segments
MaxSegments == 4

PathParams == {":vaultAccountId", ":assetId"}

Registered(r) ==
    <<[handler |-> "root", pattern |-> <<>>],
      [handler |-> "accounts", pattern |-> <<"api", "vault-accounts">>],
      [handler |-> "account", pattern |-> <<"api", "vault-accounts", ":vaultAccountId">>]>>
    \o (IF r = "first" THEN <<>>
        ELSE <<[handler |-> "assets",
                pattern |-> <<"api", "vault-accounts", ":vaultAccountId", "assets">>]>>)
    \o
    <<[handler |-> "asset",
       pattern |-> <<"api", "vault-accounts", ":vaultAccountId", ":assetId">>],
      [handler |-> "supported", pattern |-> <<"api", "supported-assets">>],
      [handler |-> "transactions", pattern |-> <<"api", "transactions">>]>>

\* a pattern matches a path of as many segments, each equal to the pattern's
\* or standing for a parameter
matches(pattern, path) ==
    /\ Len(pattern) = Len(path)
    /\ \A i \in 1..Len(pattern) : pattern[i] \in PathParams \/ pattern[i] = path[i]

\* c.req.param(name)
param(pattern, path, name) ==
    IF \E i \in 1..Len(pattern) : pattern[i] = name
    THEN path[CHOOSE i \in 1..Len(pattern) : pattern[i] = name]
    ELSE ""

\* app.fetch(request): of the handlers registered with app.get whose pattern
\* matches, the one registered first answers; without one the answer is the
\* router's 404
dispatch(r, m, path) ==
    LET regs == Registered(r)
        hits == {i \in 1..Len(regs) : m = "GET" /\ matches(regs[i].pattern, path)}
        first == CHOOSE i \in hits : \A j \in hits : i <= j
    IN  IF hits = {}
        THEN [handler |-> "unknown", vaultAccountId |-> "", assetId |-> ""]
        ELSE [handler |-> regs[first].handler,
              vaultAccountId |-> param(regs[first].pattern, path, ":vaultAccountId"),
              assetId |-> param(regs[first].pattern, path, ":assetId")]

Segments == {"api", "vault-accounts", "assets", "7", "supported-assets", "transactions"}

RouteArgs ==
    {[kind |-> "route", r |-> r, m |-> m, path |-> path] :
        r \in AllRevisions, m \in Methods, path \in SeqsUpTo(Segments, MaxSegments)}

InitRoute ==
    /\ noRequest
    /\ pc = "call"
    /\ arg \in RouteArgs
    /\ ret = NoArg
    /\ net = <<>>

Dispatches == returns(dispatch(arg.r, arg.m, arg.path))

SpecRoute == InitRoute /\ [][Dispatches]_vars

-----------------------------------------------------------------------------
(* Concurrent requests: default.fetch is entered again while the handlers   *)
(* of earlier requests wait for the wallet platform or for prices.  Each    *)
(* handler is a closure; what it holds is kept per request.                 *)

\* most requests in flight at once
MaxRequests == 2

OkConfig == [apiKey |-> TRUE, secretPath |-> TRUE, cryptoMarketDataApi |-> TRUE, key |-> "ok"]

\* what a handler holds when it has made its wallet call
Local(rt, assetId) ==
    [route |-> rt, urlAssetId |-> IF rt = "asset" THEN assetId ELSE NoStr, pc |-> "wallet",
     upstream |-> NoArr, wallet |-> NoArr, k |-> 0, scopeSyms |-> <<>>, resp |-> NoResp]

Idle == [Local("none", NoStr) EXCEPT !.pc = "idle"]

\* return c.json(body)
answered(loc, body) == [loc EXCEPT !.resp = [status |-> 200, body |-> body], !.pc = "done"]

\* the catch block answers
caught(r, loc, err) == [loc EXCEPT !.resp = errorResponse(r, loc.route, err), !.pc = "done"]

\* await Effect.runPromise(getPrices(symbols, ..))
awaiting(loc, symbols) == [loc EXCEPT !.scopeSyms = symbols, !.pc = "price"]

\* the account list's loop from account i on
accountsFrom(r, loc, accts, i) ==
    LET run == runAccounts(r, accts, i)
        held == [loc EXCEPT !.wallet = Arr(run.accounts), !.k = run.next]
    IN  IF run.wait THEN awaiting(held, run.symbols)
        ELSE answered(held, accountsBody(run.accounts))

\* the handler's continuation when its wallet call settles
onWallet(r, loc, answer) ==
    IF answer.kind = "error" THEN caught(r, loc, walletFailure(answer.err))
    ELSE LET value == answer.value
             held == [loc EXCEPT !.upstream = value, !.wallet = value, !.k = 1]
         IN  CASE loc.route = "accounts" ->
                      IF value.t # "array"
                      THEN answered([loc EXCEPT !.upstream = NoArr, !.wallet = NoArr],
                                    [kind |-> "accounts", accounts |-> NoArr])
                      ELSE accountsFrom(r, [loc EXCEPT !.upstream = value], value.a, 1)
               [] loc.route = "account" ->
                      IF value.assets.t # "array" THEN answered(held, accountBody(value))
                      ELSE IF scopeSymbols(value.assets.a) # <<>>
                      THEN awaiting(held, scopeSymbols(value.assets.a))
                      ELSE answered(held, accountBody(finishAccount(r, loc.route, value,
                                                                    EmptyTable)))
               [] loc.route = "assets" ->
                      LET assets == IF value.t = "array" THEN value.a ELSE <<>>
                          kept == [held EXCEPT !.wallet = Arr(assets)]
                      IN  IF assets = <<>> THEN answered(kept, assetsBody(<<>>))
                          ELSE IF scopeSymbols(assets) # <<>>
                          THEN awaiting(kept, scopeSymbols(assets))
                          ELSE answered(kept, assetsBody(valuateAll(r, loc.route, assets,
                                                                    EmptyTable)))
               [] loc.route = "asset" ->
                      awaiting(held, <<extractUrlSymbol(loc.urlAssetId)>>)

\* the handler's continuation when its price fetch settles
onPrice(r, loc, outcome) ==
    LET result == getPricesSettles(outcome)
        prices == settledTable(result)
    IN  IF ~result.ok /\ PriceFailureEscapes(r, loc.route)
        THEN caught(r, loc, PriceFailure)
        ELSE CASE loc.route = "accounts" ->
                      accountsFrom(r, loc,
                                   [loc.wallet.a EXCEPT
                                        ![loc.k] = finishAccount(r, loc.route, @, prices)],
                                   loc.k + 1)
               [] loc.route = "account" ->
                      answered(loc, accountBody(finishAccount(r, loc.route, loc.wallet, prices)))
               [] loc.route = "assets" ->
                      answered(loc, assetsBody(valuateAll(r, loc.route, loc.wallet.a, prices)))
               [] loc.route = "asset" ->
                      answered(loc, assetBody(valuate(r, loc.route, loc.wallet, loc.urlAssetId,
                                                       prices)))

\* what a continuation would resume with if the handler's variables were
\* declared per route, outside the request's closure: those of the latest
\* request that waits at the same point of the same handler
handlerScope(states, i) ==
    LET same == {j \in 1..Len(states) :
                    states[j].route = states[i].route /\ states[j].pc = states[i].pc}
    IN  states[CHOOSE j \in same : \A x \in same : x <= j]

\* the state a continuation of request i resumes with: its own closure
closure(states, i) == states[i]

\* the continuation that runs when an answer arrives for the handler
resume(r, loc, answer) ==
    IF loc.pc = "wallet" THEN onWallet(r, loc, answer) ELSE onPrice(r, loc, answer)

\* a request in flight: what its handler holds, and the answers the wallet
\* platform and the market-data endpoint have given it so far
InFlight(loc, answers) == [held |-> loc, answers |-> answers]

\* what the handlers of the requests in flight hold
closures(reqs) == [i \in 1..Len(reqs) |-> reqs[i].held]

OneAsset(id) == RawAsset(id, Two, NoData)

\* the wallet platform's answers drawn for concurrent requests
WalletAnswers(rt) ==
    {[kind |-> "error", err |-> [status |-> Num(401), message |-> "other"]]}
        \cup {[kind |-> "ok", value |-> v] :
                  v \in CASE rt = "accounts" ->
                                {Arr(<<Account(1, Arr(<<OneAsset(B_T)>>))>>),
                                 Arr(<<Account(1, Arr(<<OneAsset(B_T)>>)),
                                       Account(2, Arr(<<OneAsset(E_T)>>))>>)}
                         [] rt = "account" ->
                                {Account(1, Arr(<<OneAsset(E_T)>>)), Account(1, NoArr)}
                         [] rt = "assets" -> {Arr(<<OneAsset(B_T), OneAsset(E_T)>>)}
                         [] rt = "asset" -> {OneAsset(B_T)}}

\* the market-data endpoint's answers drawn for concurrent requests: a
\* failure, every symbol priced, or none
PriceAnswers(symbols) ==
    {o \in Outcomes(symbols) :
        \/ o.kind = "transport"
        \/ o.kind = "ok" /\ o.body = EmptyTable
        \/ o.kind = "ok" /\ DOMAIN o.body = {symbols[i] : i \in 1..Len(symbols)}}

InitConcurrent ==
    /\ inflight = [i \in 1..MaxRequests |-> InFlight(Idle, <<>>)]
    /\ setups = 1
    /\ config = OkConfig
    /\ method = "GET"
    /\ walletCalls = <<>>
    /\ rev \in Revisions
    /\ route = "none"
    /\ pc = "serving"
    /\ urlAssetId = NoStr
    /\ upstream = NoArr
    /\ wallet = NoArr
    /\ k = 0
    /\ scopeSyms = <<>>
    /\ calls = <<>>
    /\ net = <<>>
    /\ resp = NoResp
    /\ arg = NoArg
    /\ ret = NoArg

\* a request arrives while others are in flight; its handler calls the wallet
\* platform
Arrives ==
    /\ pc = "serving"
    /\ \E i \in 1..MaxRequests, rt \in Routes, assetId \in {B_T} :
           /\ inflight[i].held.pc = "idle"
           /\ \A j \in 1..(i - 1) : inflight[j].held.pc # "idle"
           /\ inflight' = [inflight EXCEPT ![i] = InFlight(Local(rt, assetId), <<>>)]
           /\ walletCalls' = Append(walletCalls, walletCall(rt))
    /\ setups' = setups + 1
    /\ UNCHANGED <<config, method, rev, route, pc, urlAssetId, upstream, wallet, k, scopeSyms,
                   calls, net, resp, arg, ret>>

\* the continuation of request i runs, and sends a price request if it ends
\* in an await of getPrices
continues(i, answer) ==
    LET next == resume(rev, closure(closures(inflight), i), answer)
    IN  /\ inflight' = [inflight EXCEPT ![i] = InFlight(next, Append(@.answers, answer))]
        /\ net' = IF next.pc = "price"
                  THEN net \o getPricesSends(next.scopeSyms, Currencies)
                  ELSE net

\* the wallet platform answers one of the requests in flight
WalletSettles ==
    /\ pc = "serving"
    /\ \E i \in 1..MaxRequests :
           /\ inflight[i].held.pc = "wallet"
           /\ \E answer \in WalletAnswers(inflight[i].held.route) : continues(i, answer)
    /\ UNCHANGED <<setups, config, method, walletCalls, rev, route, pc, urlAssetId, upstream,
                   wallet, k, scopeSyms, calls, resp, arg, ret>>

\* the market-data endpoint answers one of the requests in flight
PriceSettles ==
    /\ pc = "serving"
    /\ \E i \in 1..MaxRequests :
           /\ inflight[i].held.pc = "price"
           /\ \E outcome \in PriceAnswers(inflight[i].held.scopeSyms) : continues(i, outcome)
    /\ UNCHANGED <<setups, config, method, walletCalls, rev, route, pc, urlAssetId, upstream,
                   wallet, k, scopeSyms, calls, resp, arg, ret>>

NextConcurrent == Arrives \/ WalletSettles \/ PriceSettles

SpecConcurrent == InitConcurrent /\ [][NextConcurrent]_vars

-----------------------------------------------------------------------------
(* Properties of the components *)

\* C3: a calculated value is null exactly when the table has no price for the
\* asset's symbol in that currency, and is balance times price otherwise; a
\* price of 0 gives 0.
C3_NullIffPriceAbsent ==
    (arg.kind = "valuate" /\ pc = "returned") =>
        \A c \in CurrencySet :
            LET symbol == symbolOf(arg.rt, arg.asset, arg.assetId)
                priced == /\ symbol \in DOMAIN arg.prices
                          /\ arg.prices[symbol][c] # Undefined
            IN  ret.calculatedValues[c] =
                    IF priced
                    THEN Mul(balanceOf(arg.r, arg.rt, arg.asset), arg.prices[symbol][c])
                    ELSE Null

\* C7: getPrices called with no symbols issues no request and returns the
\* empty table.
C7_EmptyFetchShortCircuits ==
    (arg.kind = "getPrices" /\ arg.symbols = <<>>) =>
        /\ net = <<>>
        /\ pc = "returned" => ret = [ok |-> TRUE, table |-> EmptyTable]

\* sum of the finite values of a sequence
RECURSIVE FiniteSum(_)
FiniteSum(values) ==
    IF values = <<>> THEN 0
    ELSE (IF IsFinite(Head(values)) THEN Head(values).v ELSE 0) + FiniteSum(Tail(values))

\* C8: each total is the sum of the finite, non-null calculated values of the
\* account's assets; null and non-finite values change nothing.
C8_TotalsSumFiniteValues ==
    (arg.kind = "aggregate" /\ pc = "returned") =>
        \A c \in CurrencySet :
            ret.assetBalances[c] =
                Num(FiniteSum([i \in 1..Len(ret.assets.a) |-> ret.assets.a[i].calculatedValues[c]]))

\* C9: the totals of an account do not depend on the order of its assets.
C9_TotalsOrderIndependent ==
    (arg.kind = "aggregate" /\ pc = "returned") =>
        \A p \in Permutations(1..Len(arg.assets)) :
            finishAccount(arg.r, "accounts",
                          Account(1, Arr([i \in 1..Len(arg.assets) |-> arg.assets[p[i]]])),
                          AggTable).assetBalances
                = ret.assetBalances

\* the part of s before its first "_"
PrefixBeforeUnderscore(s) ==
    LET n == CHOOSE n \in 0..Len(s) :
                 /\ \A i \in 1..n : s[i] # "_"
                 /\ n = Len(s) \/ s[n + 1] = "_"
    IN  SubSeq(s, 1, n)

\* C10: the symbol extracted from an identifier is the part before its first
\* "_", the empty string for an empty or missing identifier, and never an
\* error, on the list routes and on the single-asset route.
C10_SymbolIsFirstSegment ==
    (arg.kind = "extract" /\ pc = "returned") =>
        ret = Str(IF arg.id.t = "string" THEN PrefixBeforeUnderscore(arg.id.s) ELSE <<>>)

\* a symbol was extracted from an identifier of three segments
C10_Witness ==
    /\ arg.kind = "extract"
    /\ pc = "returned"
    /\ arg.id = Str(<<"B", "_", "_">>)
    /\ ret = SymB

\* the wallet platform's error says that the asset or account does not exist
SignalsNotFound(err) == err.status = Num(404) \/ err.message = "not found"

\* C11: when a call of the wallet platform fails, on any route, the response
\* status is the error's numeric status if it has one and 500 otherwise, and
\* the body has the fields error and status, status being the response status.
C11_UpstreamStatusPropagates ==
    (arg.kind = "catch" /\ pc = "returned") =>
        /\ ret.status = (IF arg.err.status.t = "number" THEN arg.err.status.v ELSE 500)
        /\ {"error", "status"} \subseteq DOMAIN ret.body
        /\ ret.body.status = ret.status

\* C12: when the wallet platform signals that the asset or account does not
\* exist, the single-account, asset-list and single-asset routes answer 404
\* with a message.
C12_NotFoundAnswers404 ==
    (/\ arg.kind = "catch"
     /\ pc = "returned"
     /\ arg.rt \in {"account", "assets", "asset"}
     /\ SignalsNotFound(arg.err)) =>
        /\ ret.status = 404
        /\ "error" \in DOMAIN ret.body

\* a row as the response carries it has exactly the keys USD and AUD, each a
\* number or null
FullyShaped(row) ==
    /\ row.t = "object"
    /\ \A c \in CurrencySet : jsonRow(row)[c].t \in {"number", "null"}

\* C17: the unitPrice and the calculatedValues of an enriched asset each have
\* exactly the keys USD and AUD, each a number or null, whatever the price
\* table, also when the row of the asset's symbol has one currency only.
C17_EnrichedAssetFullyShaped ==
    (arg.kind = "valuate" /\ pc = "returned") =>
        /\ FullyShaped(ret.unitPrice)
        /\ FullyShaped(ret.calculatedValues)

\* the asset's available balance is missing, or is a string parseFloat makes
\* no number of
NoBalance(asset) ==
    /\ asset.data = NoData
    /\ \/ asset.available.t # "string"
       \/ parseFloat(asset.available.s) = NaN

\* C18: an asset whose available balance is missing or unparsable has, for
\* each currency its symbol has a price in, the calculated value 0 and not
\* NaN, and adds 0 to the account's total.
C18_NoBalanceValuesZero ==
    (arg.kind = "valuate" /\ pc = "returned" /\ NoBalance(arg.asset)) =>
        \A c \in CurrencySet :
            LET symbol == symbolOf(arg.rt, arg.asset, arg.assetId)
            IN  (symbol \in DOMAIN arg.prices /\ arg.prices[symbol][c].t = "number") =>
                    /\ ret.calculatedValues[c] = Num(0)
                    /\ addValue(arg.r, Num(0), ret.calculatedValues[c]) = Num(0)

\* a table of the shape {symbol: {currency: number}}
WellShaped(table) ==
    \A x \in DOMAIN table :
        /\ table[x].t = "object"
        /\ \A c \in CurrencySet : table[x][c].t \in {"number", "undefined"}

\* C19: getPrices fails as a whole when the transport fails, the status is
\* not successful or the body is no price table: a failure carries no table,
\* and a table it returns has the shape {symbol: {currency: number}}.
C19_FetchFailsAsUnit ==
    (arg.kind = "getPrices" /\ pc = "returned") =>
        IF ret.ok THEN WellShaped(ret.table) ELSE ret.table = EmptyTable

\* the handler of one request run on its own against the given answers
RECURSIVE replay(_, _, _)
replay(r, loc, answers) ==
    IF answers = <<>> THEN loc
    ELSE replay(r, resume(r, loc, Head(answers)), Tail(answers))

alone(r, rt, assetId, answers) == replay(r, Local(rt, assetId), answers)

Running == pc \in {"wallet", "price"}

Pending == {i \in 1..Len(calls) : calls[i].settled = "pending"}

\* C21: provided every call of the wallet platform and every price fetch
\* returns or fails, a request that entered a handler is answered; the answer
\* is produced when the handler has run to its end (nothing is pending), it
\* is produced once, and after it the request issues no wallet call and no
\* price fetch and changes nothing it holds.
C21_RequestRunsToOneResponse ==
    /\ Running ~> (pc = "done")
    /\ [](resp # NoResp => pc = "done" /\ Pending = {})
    /\ [](pc = "done" => resp # NoResp)
    /\ [][resp # NoResp =>
              UNCHANGED <<resp, walletCalls, calls, net, upstream, wallet, k, scopeSyms>>]_vars

\* an account list whose two accounts each needed a price fetch was answered
C21_Witness ==
    /\ pc = "done"
    /\ route = "accounts"
    /\ resp.status = 200
    /\ Len(calls) = 2
    /\ Pending = {}

\* the operations of the wallet platform's client that read
ReadOperations ==
    {"getPagedVaultAccounts", "getVaultAccount", "getVaultAccountAssetsByVaultAccountId",
     "getVaultAccountAsset", "getSupportedAssets", "getTransactions"}

\* C22: whatever the method and the path of the requests, every call made to
\* the wallet platform is a read (a list or a get), every request sent to
\* the market-data endpoint is a GET, and a request that is not a GET causes
\* no upstream call at all.
C22_NoWritePath ==
    /\ \A i \in 1..Len(walletCalls) : walletCalls[i] \in ReadOperations
    /\ \A i \in 1..Len(net) : net[i].method = "GET"
    /\ method # "GET" => walletCalls = <<>> /\ net = <<>>

\* a GET was answered after the wallet platform and the market-data endpoint
\* were both called
C22_Witness ==
    /\ pc = "done"
    /\ method = "GET"
    /\ Len(walletCalls) = 1
    /\ Len(net) >= 1
    /\ resp.status = 200

\* GET /api/vault-accounts/:vaultAccountId/assets
AssetListPath(path) ==
    /\ Len(path) = 4
    /\ SubSeq(path, 1, 2) = <<"api", "vault-accounts">>
    /\ path[4] = "assets"

\* C23: a GET of /api/vault-accounts/<id>/assets is answered by the
\* asset-list handler with that account id, never by the single-asset handler
\* with the asset identifier "assets".
C23_AssetListRouteWins ==
    (pc = "returned" /\ arg.kind = "route" /\ arg.m = "GET" /\ AssetListPath(arg.path)) =>
        /\ ret.handler = "assets"
        /\ ret.vaultAccountId = arg.path[3]
        /\ ret.assetId = ""

\* C24: the application is set up once and reused: however many requests
\* have arrived, the setupApp effect (configuration, private key, client,
\* routes) has been run at most once.
C24_SetupRunsOnce == setups <= 1

\* the pricing a route's handler attaches to an upstream record whose
\* identifier is also the one of the URL
pricing(r, rt, asset, prices) ==
    LET enriched == valuate(r, rt, asset, asset.id, prices)
    IN  [unitPrice |-> enriched.unitPrice, calculatedValues |-> enriched.calculatedValues]

\* C25: for one upstream record and one price table the account-list, the
\* single-account, the asset-list and the single-asset handler attach the
\* same unitPrice and calculatedValues, with the record's fields at top level
\* or under data (the single-asset handler is compared when the URL names
\* the record's identifier).
C25_ScopesValuateAlike ==
    (pc = "returned" /\ arg.kind = "valuate" /\ arg.asset.id.t = "string"
        /\ (arg.rt = "asset" => arg.assetId = arg.asset.id)) =>
        \A rt \in Routes :
            pricing(arg.r, rt, arg.asset, arg.prices) =
                [unitPrice |-> ret.unitPrice, calculatedValues |-> ret.calculatedValues]

\* the response is the catch block's answer to a rejected wallet call
WalletErrorAnswered ==
    /\ pc = "done"
    /\ resp.body.kind = "error"
    /\ resp.body.cause = "wallet"

\* C26: on the four enrichment routes no price fetch is issued while the
\* call of the wallet platform is awaited; a fetch is only issued with the
\* wallet platform's answer in hand; and when that call fails the request
\* is answered with the error response without any price fetch.
C26_WalletBeforePrices ==
    (method = "GET" /\ route \in Routes) =>
        /\ pc = "wallet" => calls = <<>> /\ net = <<>>
        /\ (calls # <<>> \/ net # <<>>) => upstream # NoArr /\ ~WalletErrorAnswered
        /\ WalletErrorAnswered => calls = <<>> /\ net = <<>> /\ resp.status >= 400

\* a price fetch is in flight, issued with the wallet platform's answer held
C26_Witness ==
    /\ pc = "price"
    /\ route \in Routes
    /\ upstream # NoArr
    /\ Len(net) = 1
    /\ calls[1].settled = "pending"

\* the table the price fetch of account j returned; empty if it failed or
\* was not made
OwnTable(j) ==
    IF \E i \in 1..Len(calls) : calls[i].scope = j
    THEN calls[CHOOSE i \in 1..Len(calls) : calls[i].scope = j].table
    ELSE EmptyTable

\* what the handler makes of account j when the list holds that account
\* only and its price fetch returns the same table
AloneInList(j) ==
    LET run == runAccounts(rev, <<upstream.a[j]>>, 1)
    IN  IF run.wait
        THEN finishAccount(rev, "accounts", upstream.a[j], OwnTable(j))
        ELSE run.accounts[1]

\* C27: in the answer to the account-list route every account whose own
\* price fetch did not fail carries the unitPrice, calculatedValues and
\* assetBalances it would carry if it were the only account of the list,
\* valuated with the table of its own fetch: neither the failed or skipped
\* fetch of another account nor the prices of another account change it.
C27_AccountsEnrichedApart ==
    (pc = "done" /\ method = "GET" /\ route = "accounts" /\ upstream.t = "array"
        /\ ~WalletErrorAnswered) =>
        \A j \in 1..Len(upstream.a) :
            j \notin FailedScopes =>
                /\ resp.status = 200
                /\ resp.body.kind = "accounts"
                /\ Len(resp.body.accounts.a) = Len(upstream.a)
                /\ resp.body.accounts.a[j] = jsonAccount(AloneInList(j))

\* the accounts before account j have been valuated and aggregated (or
\* passed over for want of an asset array)
DoneBefore(j) ==
    \A i \in 1..(j - 1) :
        \/ wallet.a[i].assetBalances # NoRow
        \/ wallet.a[i].assets.t # "array"

\* C28: in the account-list route at most one price fetch is in flight, it
\* is the one issued last, the fetches are issued in the order of the
\* accounts, one request each, and when the fetch of an account is issued
\* every account before it has been valuated and aggregated.
C28_FetchesOneAtATime ==
    (method = "GET" /\ route = "accounts") =>
        /\ Cardinality(Pending) <= 1
        /\ \A i \in Pending : i = Len(calls) /\ pc = "price"
        /\ Len(net) = Len(calls)
        /\ \A i, j \in 1..Len(calls) : i < j => calls[i].scope < calls[j].scope
        /\ \A i \in 1..Len(calls) : calls[i].scope <= Len(upstream.a)
        /\ calls # <<>> => DoneBefore(calls[Len(calls)].scope)

\* the fetch of the second account is in flight, after the fetch of the
\* first has settled and the first account has its totals
C28_Witness ==
    /\ route = "accounts"
    /\ pc = "price"
    /\ Len(calls) = 2
    /\ calls[1].settled # "pending"
    /\ calls[2].settled = "pending"
    /\ calls[2].scope = 2
    /\ wallet.a[1].assetBalances # NoRow
    /\ wallet.a[2].assetBalances = NoRow

\* the scopes of a 200 answer of an enrichment route
AnsweredScopes ==
    IF route = "accounts" THEN 1..Len(resp.body.accounts.a) ELSE {1}

\* one currency of an enriched asset of the response: a value is only there
\* with a unit price, and is the balance the handler parsed times that price
ValueFollowsPrice(e, value, price) ==
    value # Null =>
        /\ value.t = "number"
        /\ price \notin {Null, Undefined}
        /\ value = Mul(balanceOf(rev, route, e.raw), price)

====
